---- MODULE Spec2Model ----
(***************************************************************************)
(* Model of the attendance application (src/app.py): the Session and       *)
(* Attendance tables, the clock read by datetime.utcnow(), and the Flask   *)
(* handlers.  The development server dispatches requests on threads, so    *)
(* the handlers that read and then write the database (attend, session_qr) *)
(* are split at their database operations and interleave; the handlers     *)
(* that only read, and create_session with its single INSERT, are one      *)
(* step each.                                                              *)
(*                                                                         *)
(* Times are seconds.  str(uuid.uuid4()) is modelled as a token never      *)
(* issued before (a counter).  Form strings are sequences of characters,   *)
(* so that str.strip() is computed and not assumed.                        *)
(***************************************************************************)
EXTENDS Integers, Sequences, FiniteSets

VARIABLES sessions, attendance, now, nextUuid, th

vars == <<sessions, attendance, now, nextUuid, th>>

(***************************************************************************)
(* Bounds of the model.                                                    *)
(***************************************************************************)
MaxSessions == 1
MaxRows == 2
MaxUuid == 3
MaxTime == 60

(***************************************************************************)
(* Program constants.                                                      *)
(***************************************************************************)
RotationSeconds == 60
SecondsPerMinute == 60

(***************************************************************************)
(* Inputs.                                                                 *)
(***************************************************************************)
Threads == {"t1", "t2"}

Whitespace == {" "}

\* values of the form field student_id ("" when the field is missing)
StudentIdInputs == {<<>>, <<" ">>, <<"a">>, <<" ", "a", " ">>, <<"b">>}

\* values of the form field student_name
StudentNameInputs == {<<>>, <<" ">>, <<"x">>, <<"y", " ">>}

\* values of duration_minutes that int() parses
DurationInputs == {-1, 0, 1}

CourseNameInputs == {"CS101"}

\* the instants at which the clock is observed: the multiples of the
\* rotation threshold and the last instant of the model
TimePoints == {t \in 0..MaxTime : t % RotationSeconds = 0 \/ t = MaxTime}

\* the codes a request can carry: every code issued so far and one that
\* was never issued
RequestCodes == 0..(nextUuid - 1)

(***************************************************************************)
(* str.strip()                                                             *)
(***************************************************************************)
RECURSIVE LStrip(_)
LStrip(s) ==
    IF s = <<>> THEN s
    ELSE IF Head(s) \in Whitespace THEN LStrip(Tail(s)) ELSE s

RECURSIVE RStrip(_)
RStrip(s) ==
    IF s = <<>> THEN s
    ELSE IF s[Len(s)] \in Whitespace THEN RStrip(SubSeq(s, 1, Len(s) - 1)) ELSE s

\* a strip that removes nothing
StripNone(s) == s

Strip(s) == RStrip(LStrip(s))

(***************************************************************************)
(* Rows and queries.                                                       *)
(***************************************************************************)
NoSession ==
    [id |-> 0, code |-> 0, current_code |-> 0, course_name |-> "",
     created_at |-> 0, expires_at |-> 0, last_code_rotation |-> 0]

\* Session.query.filter_by(code=code).first()
ByCode(rows, code) ==
    IF \E i \in DOMAIN rows : rows[i].code = code
    THEN rows[CHOOSE i \in DOMAIN rows :
                 /\ rows[i].code = code
                 /\ \A j \in DOMAIN rows : rows[j].code = code => i <= j]
    ELSE NoSession

\* Session.query.filter_by(current_code=code).first()
ByCurrentCode(rows, code) ==
    IF \E i \in DOMAIN rows : rows[i].current_code = code
    THEN rows[CHOOSE i \in DOMAIN rows :
                 /\ rows[i].current_code = code
                 /\ \A j \in DOMAIN rows : rows[j].current_code = code => i <= j]
    ELSE NoSession

\* a roster lookup without the fallback
GetSessionByPermanentCodeOnly(rows, code) == ByCode(rows, code)

\* the roster endpoints: permanent code first, current code as the fallback
GetSessionByAnyCode(rows, code) ==
    IF ByCode(rows, code) # NoSession
    THEN ByCode(rows, code)
    ELSE ByCurrentCode(rows, code)

\* an attend lookup that accepts the permanent code as the roster does
AttendLookupAnyCode(rows, code) == GetSessionByAnyCode(rows, code)

\* the attend endpoint: current code only
AttendSessionLookup(rows, code) == ByCurrentCode(rows, code)

\* a handler without the expiry check
IsExpiredNever(t, session) == FALSE

\* datetime.utcnow() > session.expires_at
IsExpired(t, session) == t > session.expires_at

\* an existing-row query filtered by the session alone
ExistingIgnoringStudent(rows, session_id, student_id) ==
    \E i \in DOMAIN rows : rows[i].session_id = session_id

\* Attendance.query.filter_by(session_id=..., student_id=...).first()
Existing(rows, session_id, student_id) ==
    \E i \in DOMAIN rows :
        /\ rows[i].session_id = session_id
        /\ rows[i].student_id = student_id

\* a table without the constraint
NoConstraint(rows, session_id, student_id) == FALSE

\* UniqueConstraint("session_id", "student_id"): the INSERT is refused
UqSessionStudent(rows, session_id, student_id) ==
    \E i \in DOMAIN rows :
        /\ rows[i].session_id = session_id
        /\ rows[i].student_id = student_id

\* timedelta(seconds=duration_minutes)
ExpiresAtSeconds(t, duration_minutes) == t + duration_minutes

\* now + timedelta(minutes=duration_minutes)
ExpiresAt(t, duration_minutes) == t + SecondsPerMinute * duration_minutes

\* a rotation that also restarts the session's window
RotatedAndExtended(session, code, t) ==
    [session EXCEPT !.current_code = code, !.last_code_rotation = t,
                    !.expires_at = t + (session.expires_at - session.created_at)]

\* session.current_code = str(uuid.uuid4()); session.last_code_rotation = now
Rotated(session, code, t) ==
    [session EXCEPT !.current_code = code, !.last_code_rotation = t]

\* the rows of one session in the order of the query: by marked_at, rows of
\* equal marked_at in insertion order (rows are appended with marked_at = now)
RECURSIVE Records(_, _)
Records(rows, session_id) ==
    IF rows = <<>> THEN <<>>
    ELSE IF Head(rows).session_id = session_id
         THEN <<Head(rows)>> \o Records(Tail(rows), session_id)
         ELSE Records(Tail(rows), session_id)

(***************************************************************************)
(* Requests in flight: one record per server thread, holding the handler   *)
(* it runs, the request's code and method, the handler's local variables   *)
(* (the Session object as loaded, the stripped form fields) and, once the  *)
(* handler has returned, its outcome.                                      *)
(***************************************************************************)
IdleThread ==
    [handler |-> "none", pc |-> "idle", method |-> "GET", code |-> 0,
     session |-> NoSession, student_id |-> <<>>, student_name |-> <<>>,
     duration |-> 0, outcome |-> "none", header |-> 0]

Free(t) == th[t].pc \in {"idle", "done"}

\* the columns of its Session object that attend reads
AttendFields(session) ==
    [NoSession EXCEPT !.id = session.id, !.expires_at = session.expires_at]

\* first_or_404()
Found(session, pc) == IF session = NoSession THEN "done" ELSE pc

OrNotFound(session, outcome) == IF session = NoSession THEN "NotFound" ELSE outcome

\* session_qr uses the URL's code in the lookup alone: once found it is the
\* code of the row loaded, and the request keeps it only with a 404
CodeOf404(session, code) == IF session = NoSession THEN code ELSE 0

(***************************************************************************)
(* Initial state: db.create_all() on an empty database.                    *)
(***************************************************************************)
Init ==
    /\ sessions = <<>>
    /\ attendance = <<>>
    /\ now = 0
    /\ nextUuid = 1
    /\ th = [t \in Threads |-> IdleThread]

\* the clock advances between any two steps
Tick ==
    /\ \E t \in TimePoints : t > now /\ now' = t
    /\ UNCHANGED <<sessions, attendance, nextUuid, th>>

(***************************************************************************)
(* Teacher routes.                                                         *)
(***************************************************************************)
\* GET /: the creation form
CreateSessionForm(t) ==
    /\ Free(t)
    /\ th' = [th EXCEPT ![t] =
                [IdleThread EXCEPT
                    !.handler = "create_session",
                    !.pc = "done",
                    !.outcome = "Form"]]
    /\ UNCHANGED <<sessions, attendance, now, nextUuid>>

\* POST / with a duration_minutes that int() does not parse: the ValueError
\* leaves the handler before anything is stored
CreateSessionNotNumeric(t) ==
    /\ Free(t)
    /\ th' = [th EXCEPT ![t] =
                [IdleThread EXCEPT
                    !.handler = "create_session",
                    !.method = "POST",
                    !.pc = "done",
                    !.outcome = "ValueError"]]
    /\ UNCHANGED <<sessions, attendance, now, nextUuid>>

\* POST / with a duration_minutes that int() parses
CreateSession(t, course_name, duration_minutes) ==
    /\ Free(t)
    /\ Len(sessions) < MaxSessions
    /\ nextUuid <= MaxUuid
    /\ sessions' = Append(sessions,
           [id |-> Len(sessions) + 1,
            code |-> nextUuid,
            current_code |-> nextUuid,
            course_name |-> course_name,
            created_at |-> now,
            expires_at |-> ExpiresAt(now, duration_minutes),
            last_code_rotation |-> now])
    /\ nextUuid' = nextUuid + 1
    /\ th' = [th EXCEPT ![t] =
                [IdleThread EXCEPT
                    !.handler = "create_session",
                    !.method = "POST",
                    !.pc = "done",
                    !.code = nextUuid,
                    !.duration = duration_minutes,
                    !.outcome = "Redirect"]]
    /\ UNCHANGED <<attendance, now>>

\* GET /session/<code>
ShowSession(t, code) ==
    /\ Free(t)
    /\ LET session == ByCode(sessions, code) IN
       th' = [th EXCEPT ![t] =
                [IdleThread EXCEPT
                    !.handler = "show_session",
                    !.pc = "done",
                    !.code = code,
                    !.outcome = OrNotFound(session, "Page")]]
    /\ UNCHANGED <<sessions, attendance, now, nextUuid>>

\* GET /session/<code>/qr: the lookup
QrLookup(t, code) ==
    /\ Free(t)
    /\ LET session == ByCode(sessions, code) IN
       th' = [th EXCEPT ![t] =
                [IdleThread EXCEPT
                    !.handler = "session_qr",
                    !.code = CodeOf404(session, code),
                    !.session = session,
                    !.pc = Found(session, "rotate"),
                    !.outcome = OrNotFound(session, "none")]]
    /\ UNCHANGED <<sessions, attendance, now, nextUuid>>

\* the time gate, on the row as this request loaded it; the UPDATE and commit
QrRotate(t) ==
    /\ th[t].handler = "session_qr"
    /\ th[t].pc = "rotate"
    /\ IF now - th[t].session.last_code_rotation >= RotationSeconds
       THEN /\ nextUuid <= MaxUuid
            /\ sessions' = [sessions EXCEPT ![th[t].session.id] =
                              Rotated(@, nextUuid, now)]
            /\ nextUuid' = nextUuid + 1
            /\ th' = [th EXCEPT ![t].pc = "send"]
       ELSE /\ th' = [th EXCEPT ![t].pc = "done",
                                ![t].outcome = "Image",
                                ![t].session = NoSession,
                                ![t].header = th[t].session.current_code]
            /\ UNCHANGED <<sessions, nextUuid>>
    /\ UNCHANGED <<attendance, now>>

\* after the commit the row is read again for the URL and the header
QrSend(t) ==
    /\ th[t].handler = "session_qr"
    /\ th[t].pc = "send"
    /\ th' = [th EXCEPT ![t].pc = "done",
                        ![t].outcome = "Image",
                        ![t].session = NoSession,
                        ![t].header = sessions[th[t].session.id].current_code]
    /\ UNCHANGED <<sessions, attendance, now, nextUuid>>

(***************************************************************************)
(* Student route.                                                          *)
(***************************************************************************)
\* GET/POST /attend/<code>: the lookup
AttendLookup(t, code, method) ==
    /\ Free(t)
    /\ LET session == AttendSessionLookup(sessions, code) IN
       th' = [th EXCEPT ![t] =
                [IdleThread EXCEPT
                    !.handler = "attend",
                    !.method = method,
                    !.code = code,
                    !.session = AttendFields(session),
                    !.pc = Found(session, "check"),
                    !.outcome = OrNotFound(session, "none")]]
    /\ UNCHANGED <<sessions, attendance, now, nextUuid>>

\* what the handler returns before it inserts, "none" when it goes on to
\* insert: the expiry check, the method, the form fields, the existing row
AttendOutcome(t, method, session, student_id, student_name, rows) ==
    IF IsExpired(t, session) THEN "Expired"
    ELSE IF method = "GET" THEN "Form"
    ELSE IF student_id = <<>> THEN "ValidationError"
    ELSE IF student_name = <<>> THEN "ValidationError"
    ELSE IF Existing(rows, session.id, student_id)
         THEN "AlreadyRecorded"
    ELSE "none"

\* the expiry check, the form fields and the query for an existing row; the
\* request's form is drawn here, where the handler first reads it
AttendCheck(t, form_id, form_name) ==
    /\ th[t].handler = "attend"
    /\ th[t].pc = "check"
    /\ LET student_id == Strip(form_id)
           student_name == Strip(form_name)
           outcome == AttendOutcome(now, th[t].method, th[t].session,
                                    student_id, student_name, attendance)
           read == outcome \notin {"Expired", "Form"}
       IN th' = [th EXCEPT ![t].pc = IF outcome = "none" THEN "insert" ELSE "done",
                           ![t].outcome = outcome,
                           ![t].code = 0,
                           ![t].session = IF outcome = "none" THEN @ ELSE NoSession,
                           ![t].student_id = IF read THEN student_id ELSE <<>>,
                           ![t].student_name = IF read THEN student_name ELSE <<>>]
    /\ UNCHANGED <<sessions, attendance, now, nextUuid>>

\* db.session.add(record); db.session.commit()
AttendCommit(t) ==
    /\ th[t].handler = "attend"
    /\ th[t].pc = "insert"
    /\ IF UqSessionStudent(attendance, th[t].session.id, th[t].student_id)
       THEN /\ th' = [th EXCEPT ![t] = [IdleThread EXCEPT
                                !.handler = "attend", !.method = "POST",
                                !.pc = "done", !.outcome = "IntegrityError"]]
            /\ UNCHANGED attendance
       ELSE /\ Len(attendance) < MaxRows
            /\ attendance' = Append(attendance,
                   [id |-> Len(attendance) + 1,
                    session_id |-> th[t].session.id,
                    student_id |-> th[t].student_id,
                    student_name |-> th[t].student_name,
                    marked_at |-> now])
            /\ th' = [th EXCEPT ![t] = [IdleThread EXCEPT
                                !.handler = "attend", !.method = "POST",
                                !.pc = "done", !.outcome = "Recorded"]]
    /\ UNCHANGED <<sessions, now, nextUuid>>

(***************************************************************************)
(* Roster routes: both resolve the code and list the session's rows.       *)
(***************************************************************************)
\* what view_attendance and attendance_json answer for a code
RosterResponse(rows, atts, code) ==
    LET session == GetSessionByAnyCode(rows, code) IN
    IF session = NoSession
    THEN [status |-> 404, session_code |-> 0, records |-> <<>>]
    ELSE [status |-> 200, session_code |-> session.code,
          records |-> Records(atts, session.id)]

\* GET /session/<code>/attendance and GET /session/<code>/attendance.json
Roster(t, handler, code) ==
    /\ Free(t)
    /\ LET session == GetSessionByAnyCode(sessions, code) IN
       th' = [th EXCEPT ![t] =
                [IdleThread EXCEPT
                    !.handler = handler,
                    !.code = code,
                    !.pc = "done",
                    !.outcome = OrNotFound(session, "Roster")]]
    /\ UNCHANGED <<sessions, attendance, now, nextUuid>>

Next ==
    \/ Tick
    \/ \E t \in Threads : CreateSessionForm(t)
    \/ \E t \in Threads : CreateSessionNotNumeric(t)
    \/ \E t \in Threads, c \in CourseNameInputs, d \in DurationInputs :
           CreateSession(t, c, d)
    \/ \E t \in Threads, code \in RequestCodes : ShowSession(t, code)
    \/ \E t \in Threads, code \in RequestCodes : QrLookup(t, code)
    \/ \E t \in Threads : QrRotate(t)
    \/ \E t \in Threads : QrSend(t)
    \/ \E t \in Threads, code \in RequestCodes, m \in {"GET", "POST"} :
           AttendLookup(t, code, m)
    \/ \E t \in Threads, i \in StudentIdInputs, n \in StudentNameInputs :
           AttendCheck(t, i, n)
    \/ \E t \in Threads : AttendCommit(t)
    \/ \E t \in Threads, code \in RequestCodes :
           Roster(t, "view_attendance", code)
    \/ \E t \in Threads, code \in RequestCodes :
           Roster(t, "attendance_json", code)

Spec == Init /\ [][Next]_vars

(***************************************************************************)
(* Helpers of the properties.                                              *)
(***************************************************************************)
\* the rows of one (session_id, student_id) pair
PairRows(rows, session_id, student_id) ==
    {i \in DOMAIN rows : /\ rows[i].session_id = session_id
                         /\ rows[i].student_id = student_id}

\* a string that is not empty and neither starts nor ends with whitespace
IsTrimmedNonEmpty(s) ==
    /\ s # <<>>
    /\ s[1] \notin Whitespace
    /\ s[Len(s)] \notin Whitespace

\* thread t takes the step that leaves the program point pc
Leaves(t, handler, pc) ==
    /\ th[t].handler = handler
    /\ th[t].pc = pc
    /\ th'[t].pc # pc

\* thread t takes the lookup step of a request to handler
Arrives(t, handler) ==
    /\ Free(t)
    /\ th'[t].handler = handler
    /\ \/ th'[t].pc # "done"
       \/ th'[t] # th[t]

(***************************************************************************)
(* C1: in every reachable state the Attendance table holds at most one row *)
(* for each (session_id, student_id) pair, whatever the interleaving of    *)
(* the submissions.                                                        *)
(***************************************************************************)
C1_UniqueSessionStudent ==
    \A i, j \in DOMAIN attendance :
        (/\ attendance[i].session_id = attendance[j].session_id
         /\ attendance[i].student_id = attendance[j].student_id) => i = j

\* two submissions of one pair passed the existence check, one row is stored
\* and the other INSERT was refused
C1_Witness ==
    \E t \in Threads :
        /\ th[t].handler = "attend"
        /\ th[t].outcome = "IntegrityError"
        /\ attendance # <<>>

(***************************************************************************)
(* C2: a submission whose INSERT violates the uniqueness constraint ends   *)
(* with the AlreadyRecorded outcome, never with an unhandled error.        *)
(***************************************************************************)
C2_ViolationIsAlreadyRecorded ==
    [][\A t \in Threads :
          (/\ Leaves(t, "attend", "insert")
           /\ PairRows(attendance, th[t].session.id, th[t].student_id) # {})
          => th'[t].outcome = "AlreadyRecorded"]_vars

(***************************************************************************)
(* C3: a request to attend, GET or POST, whose session has expires_at      *)
(* earlier than the current time when the handler checks it is answered    *)
(* with the expired outcome and inserts no row: the check comes before     *)
(* the form fields and the duplicate check.                                *)
(***************************************************************************)
C3_ExpiredNeverInserts ==
    [][\A t \in Threads :
          (/\ Leaves(t, "attend", "check")
           /\ now > sessions[th[t].session.id].expires_at)
          => /\ th'[t].pc = "done"
             /\ th'[t].outcome = "Expired"
             /\ attendance' = attendance]_vars

C3_Witness ==
    \E t \in Threads :
        /\ th[t].handler = "attend"
        /\ th[t].method = "POST"
        /\ th[t].outcome = "Expired"
        /\ \E i \in DOMAIN sessions : now > sessions[i].expires_at

(***************************************************************************)
(* C4: a submission of a pair with no row stored goes on to insert, and    *)
(* its INSERT, when no row was stored meanwhile, adds exactly one row and  *)
(* ends Recorded; a submission of a pair whose row is stored ends          *)
(* AlreadyRecorded, whatever its student_name, and inserts nothing; the    *)
(* pair keeps exactly one row.                                             *)
(***************************************************************************)
C4_ResubmissionIsIdempotent ==
    [][\A t \in Threads :
          /\ (/\ Leaves(t, "attend", "check")
              /\ th'[t].student_id # <<>>
              /\ th'[t].student_name # <<>>)
             => IF PairRows(attendance, th[t].session.id, th'[t].student_id) = {}
                THEN /\ th'[t].pc = "insert"
                     /\ attendance' = attendance
                ELSE /\ th'[t].outcome = "AlreadyRecorded"
                     /\ attendance' = attendance
                     /\ Cardinality(PairRows(attendance', th[t].session.id,
                                             th'[t].student_id)) = 1
          /\ (/\ Leaves(t, "attend", "insert")
              /\ PairRows(attendance, th[t].session.id, th[t].student_id) = {})
             => /\ th'[t].outcome = "Recorded"
                /\ Len(attendance') = Len(attendance) + 1
                /\ SubSeq(attendance', 1, Len(attendance)) = attendance
                /\ attendance'[Len(attendance')].session_id = th[t].session.id
                /\ attendance'[Len(attendance')].student_id = th[t].student_id
                /\ Cardinality(PairRows(attendance', th[t].session.id,
                                        th[t].student_id)) = 1]_vars

\* a second submission under another name was answered AlreadyRecorded
C4_Witness ==
    \E t \in Threads, i \in DOMAIN attendance :
        /\ th[t].outcome = "AlreadyRecorded"
        /\ attendance[i].student_id = th[t].student_id
        /\ attendance[i].student_name # th[t].student_name
        /\ Cardinality(PairRows(attendance, attendance[i].session_id,
                                th[t].student_id)) = 1

(***************************************************************************)
(* C5: the rotation check is a 60-second gate: current_code changes only   *)
(* when at least 60 seconds have passed since the session's                *)
(* last_code_rotation, so consecutive rotations are 60 seconds apart.      *)
(***************************************************************************)
C5_RotationsSixtySecondsApart ==
    [][\A i \in DOMAIN sessions :
          sessions'[i].current_code # sessions[i].current_code
          => /\ now - sessions[i].last_code_rotation >= RotationSeconds
             /\ sessions'[i].last_code_rotation
                  - sessions[i].last_code_rotation >= RotationSeconds]_vars

(***************************************************************************)
(* C6: a POST to a session that is not expired whose student_id or         *)
(* student_name is empty after trimming ends with ValidationError and      *)
(* leaves the Attendance table unchanged; every row stored has a           *)
(* non-empty, trimmed student_id and student_name.                         *)
(***************************************************************************)
C6_EmptyFieldIsValidationError ==
    [][/\ \A i \in DOMAIN attendance' :
             /\ IsTrimmedNonEmpty(attendance'[i].student_id)
             /\ IsTrimmedNonEmpty(attendance'[i].student_name)
       /\ \A t \in Threads :
             (/\ Leaves(t, "attend", "check")
              /\ th[t].method = "POST"
              /\ ~(now > sessions[th[t].session.id].expires_at)
              /\ \/ th'[t].student_id = <<>>
                 \/ th'[t].student_name = <<>>)
             => /\ th'[t].pc = "done"
                /\ th'[t].outcome = "ValidationError"
                /\ attendance' = attendance]_vars

C6_Witness ==
    \E t \in Threads :
        /\ th[t].outcome = "ValidationError"
        /\ th[t].student_id = <<>>
        /\ th[t].student_name # <<>>

(***************************************************************************)
(* C7: after any number of rotations the roster endpoints resolve a        *)
(* session's permanent code and its current code to that session and       *)
(* answer both with the same records; a code that is neither is answered   *)
(* NotFound.                                                               *)
(***************************************************************************)
RosterHandlers == {"view_attendance", "attendance_json"}

C7_RosterByEitherCode ==
    [][/\ (sessions' # sessions \/ attendance' # attendance) =>
          \A i \in DOMAIN sessions' :
             LET byPermanent == RosterResponse(sessions', attendance',
                                               sessions'[i].code)
                 byCurrent == RosterResponse(sessions', attendance',
                                             sessions'[i].current_code)
             IN /\ byPermanent.status = 200
                /\ byPermanent.session_code = sessions'[i].code
                /\ byPermanent.records =
                       SelectSeq(attendance', LAMBDA r : r.session_id = i)
                /\ byCurrent = byPermanent
       /\ \A t \in Threads :
             (Arrives(t, "view_attendance") \/ Arrives(t, "attendance_json"))
             => (th'[t].outcome = "NotFound"
                   <=> ~ \E i \in DOMAIN sessions :
                            \/ sessions[i].code = th'[t].code
                            \/ sessions[i].current_code = th'[t].code)]_vars

\* the roster was asked by the current code of a session that has rotated
\* and has a row
C7_Witness ==
    \E t \in Threads, i \in DOMAIN sessions :
        /\ th[t].handler \in RosterHandlers
        /\ th[t].outcome = "Roster"
        /\ th[t].code = sessions[i].current_code
        /\ sessions[i].current_code # sessions[i].code
        /\ \E r \in DOMAIN attendance : attendance[r].session_id = i

(***************************************************************************)
(* C8: every Session stored by create_session has expires_at > created_at  *)
(* (as claimed: for every duration_minutes it accepts).                    *)
(***************************************************************************)
C8_ExpiresAfterCreated ==
    \A i \in DOMAIN sessions : sessions[i].expires_at > sessions[i].created_at

(***************************************************************************)
(* C8, as amended: every Session stored by create_session has              *)
(* expires_at - created_at equal to exactly the requested duration, and    *)
(* expires_at > created_at exactly when duration_minutes is positive; a    *)
(* zero or negative duration is accepted and stores a session that         *)
(* expires at or before its creation.                                      *)
(***************************************************************************)
C8_ExpiresAtIsCreatedPlusDuration ==
    \A t \in Threads :
        (th[t].handler = "create_session" /\ th[t].outcome = "Redirect")
        => LET s == ByCode(sessions, th[t].code) IN
           /\ s # NoSession
           /\ s.expires_at - s.created_at = SecondsPerMinute * th[t].duration
           /\ (s.expires_at > s.created_at <=> th[t].duration > 0)

C8_Witness ==
    \E t \in Threads :
        /\ th[t].handler = "create_session"
        /\ th[t].outcome = "Redirect"
        /\ th[t].duration <= 0
        /\ ByCode(sessions, th[t].code).expires_at
             <= ByCode(sessions, th[t].code).created_at

(***************************************************************************)
(* C9: stored data changes only in the stated ways: a Session is never     *)
(* deleted, and changes only in a rotation step of the QR endpoint, which  *)
(* changes current_code and last_code_rotation alone; so the clock, the    *)
(* attend and the roster endpoints leave every Session unchanged;          *)
(* Attendance rows are only added.                                         *)
(***************************************************************************)
C9_OnlyRotationUpdates ==
    [][/\ Len(sessions') >= Len(sessions)
       /\ \A i \in DOMAIN sessions :
             /\ sessions'[i].id = sessions[i].id
             /\ sessions'[i].code = sessions[i].code
             /\ sessions'[i].course_name = sessions[i].course_name
             /\ sessions'[i].created_at = sessions[i].created_at
             /\ sessions'[i].expires_at = sessions[i].expires_at
             /\ sessions'[i] # sessions[i]
                => \E t \in Threads :
                      /\ Leaves(t, "session_qr", "rotate")
                      /\ th[t].session.id = i
       /\ Len(attendance') >= Len(attendance)
       /\ SubSeq(attendance', 1, Len(attendance)) = attendance]_vars

\* time has passed, the session was attended and listed, and it has rotated
C9_Witness ==
    \E i \in DOMAIN sessions :
        /\ sessions[i].current_code # sessions[i].code
        /\ sessions[i].last_code_rotation > sessions[i].created_at
        /\ \E r \in DOMAIN attendance : attendance[r].session_id = i
        /\ \E t \in Threads : th[t].handler \in RosterHandlers

(***************************************************************************)
(* C10: the attend endpoint resolves a code against the sessions'          *)
(* current_code at the lookup: a new session has current_code equal to its *)
(* permanent code; a request finds a session exactly when its code is that *)
(* session's current code, and one carrying a superseded code is answered  *)
(* NotFound and inserts nothing.                                           *)
(***************************************************************************)
C10_AttendByCurrentCodeOnly ==
    [][/\ Len(sessions') > Len(sessions)
          => sessions'[Len(sessions')].current_code = sessions'[Len(sessions')].code
       /\ \A t \in Threads :
             Arrives(t, "attend")
             => /\ attendance' = attendance
                /\ IF \E i \in DOMAIN sessions :
                         sessions[i].current_code = th'[t].code
                   THEN /\ th'[t].pc = "check"
                        /\ sessions[th'[t].session.id].current_code = th'[t].code
                   ELSE /\ th'[t].pc = "done"
                        /\ th'[t].outcome = "NotFound"]_vars

\* a request carrying the permanent code of a session that has rotated was
\* answered NotFound
C10_Witness ==
    \E t \in Threads, i \in DOMAIN sessions :
        /\ th[t].handler = "attend"
        /\ th[t].outcome = "NotFound"
        /\ th[t].code = sessions[i].code
        /\ sessions[i].current_code # sessions[i].code

====
